---- MODULE Spec2Model ----
(***************************************************************************)
(* The upload registry and CSV ingestion of src/app.py: the module-level   *)
(* list uploaded_files, the upload directory on disk, and the request      *)
(* handlers of the FastAPI application, which run on one event loop and     *)
(* interleave only at their await points.                                  *)
(***************************************************************************)
EXTENDS Integers, Sequences, FiniteSets, TLC

\* ------------------------------------------------------------------ bounds

\* Number of upload requests the clients send.
MaxRequests == 3

\* Longest uploaded body, in bytes, of the CSV specification.
MaxLen == 5

\* ------------------------------------------------------------------ bytes

\* The bytes an uploaded body is made of: an ordinary character, the
\* delimiter, the quote character, line feed, carriage return, and a byte
\* that is not valid UTF-8.
LF == "LF"
CR == "CR"
QUOTE == "QUOTE"
COMMA == "COMMA"
CHX == "x"
BadByte == "0xFF"

Bytes == {CHX, COMMA, QUOTE, LF, CR, BadByte}

\* Every byte string of at most n bytes.
BodiesUpTo(n) == UNION {[1..k -> Bytes] : k \in 0..n}

\* ------------------------------------------------------------------ file names

CsvSuffix == <<".", "c", "s", "v">>

NameA == <<"a", ".", "c", "s", "v">>
NameB == <<"b", ".", "c", "s", "v">>
NameSample == <<"s", "a", "m", "p", "l", "e", "_", "d", "a", "t", "a", ".", "c", "s", "v">>
NameTxt == <<"a", ".", "t", "x", "t">>
NameUpper == <<"a", ".", "C", "S", "V">>
NameTraversal == <<".", ".", "/", ".", ".", "/", "x", ".", "c", "s", "v">>
NameSubdir == <<"d", "i", "r", "/", "s", "u", "b", "/", "a", ".", "c", "s", "v">>

\* str.endswith, and a variant that ignores case.
endswithLower(s, suffix) ==
    LET lower(ch) == CASE ch = "C" -> "c" [] ch = "S" -> "s" [] ch = "V" -> "v" [] OTHER -> ch
    IN /\ Len(s) >= Len(suffix)
       /\ \A i \in 1..Len(suffix) : lower(s[Len(s) - Len(suffix) + i]) = suffix[i]

endswith(s, suffix) ==
    /\ Len(s) >= Len(suffix)
    /\ SubSeq(s, Len(s) - Len(suffix) + 1, Len(s)) = suffix

\* ------------------------------------------------------------------ paths

SEP == "/"
DotDot == <<".", ".">>
Dot == <<".">>

DATA_DIR == <<"d", "a", "t", "a">>
UploadsName == <<"u", "p", "l", "o", "a", "d", "s">>
UPLOAD_DIR == DATA_DIR \o <<SEP>> \o UploadsName

\* os.path.join(a, b): b alone when b is absolute, else a, a separator, b.
PathJoin(a, b) ==
    IF Len(b) > 0 /\ b[1] = SEP THEN b
    ELSE IF Len(a) = 0 \/ a[Len(a)] = SEP THEN a \o b
    ELSE a \o <<SEP>> \o b

\* The components of a path string, split at the separators.
RECURSIVE Components(_)
Components(p) ==
    IF \A i \in 1..Len(p) : p[i] # SEP THEN <<p>>
    ELSE LET k == CHOOSE i \in 1..Len(p) : p[i] = SEP /\ \A j \in 1..(i - 1) : p[j] # SEP
         IN <<SubSeq(p, 1, k - 1)>> \o Components(SubSeq(p, k + 1, Len(p)))

\* The directories that exist below the working directory, as component
\* lists: the working directory itself, data and data/uploads (os.makedirs).
Directories == {<<>>, <<DATA_DIR>>, <<DATA_DIR, UploadsName>>}

\* The file a list of path components names once the operating system has
\* walked it. from is "/" for an absolute path and "." for one relative to the
\* working directory, up counts the levels climbed above the working
\* directory, dir is the directory reached below that point and base the last
\* component. ok is FALSE when a directory on the way does not exist.
RECURSIVE Walk(_, _, _, _)
Walk(comps, from, up, dir) ==
    IF Len(comps) = 1
    THEN [ok |-> TRUE, from |-> from, up |-> up, dir |-> dir, base |-> comps[1]]
    ELSE LET c == comps[1]
             rest == Tail(comps)
         IN IF c = <<>> \/ c = Dot THEN Walk(rest, from, up, dir)
            ELSE IF c = DotDot
                 THEN IF dir # <<>> THEN Walk(rest, from, up, SubSeq(dir, 1, Len(dir) - 1))
                      ELSE IF from = "/" THEN Walk(rest, from, up, dir)
                      ELSE Walk(rest, from, up + 1, dir)
            ELSE IF from = "." /\ up = 0 /\ Append(dir, c) \in Directories
                 THEN Walk(rest, from, up, Append(dir, c))
            ELSE [ok |-> FALSE, from |-> from, up |-> up, dir |-> dir, base |-> c]

Resolve(p) ==
    Walk(Components(p), IF Len(p) > 0 /\ p[1] = SEP THEN "/" ELSE ".", 0, <<>>)

\* ------------------------------------------------------------------ csv

\* bytes.decode('utf-8'): the text, or UnicodeDecodeError; and a variant that
\* drops the bytes it cannot decode.
DecodeIgnoreErrors(content) ==
    [ok |-> TRUE, text |-> SelectSeq(content, LAMBDA b : b # BadByte)]

Decode(content) ==
    IF \E i \in 1..Len(content) : content[i] = BadByte
    THEN [ok |-> FALSE, text |-> <<>>]
    ELSE [ok |-> TRUE, text |-> content]

\* What csv.reader is fed: io.StringIO yields the text a line at a time, a
\* line ending after each line feed, and the reader passes the parser each
\* character of a line and then an end-of-line mark.
EOL == "EOL"

RECURSIVE Feed(_)
Feed(text) ==
    IF text = <<>> THEN <<>>
    ELSE IF \A i \in 1..Len(text) : text[i] # LF THEN Append(text, EOL)
    ELSE LET k == CHOOSE i \in 1..Len(text) : text[i] = LF /\ \A j \in 1..(i - 1) : text[j] # LF
         IN Append(SubSeq(text, 1, k), EOL) \o Feed(SubSeq(text, k + 1, Len(text)))

\* The parser of the csv module under the default (excel) dialect: its state
\* after one character. len is the length of the field being collected.
ParseProcessChar(st, c) ==
    LET newline == c \in {LF, CR, EOL}
        afterNewline == IF c = EOL THEN "START_RECORD" ELSE "EAT_CRNL"
        startField ==
            IF newline THEN [state |-> afterNewline, len |-> 0, err |-> FALSE]
            ELSE IF c = QUOTE THEN [state |-> "IN_QUOTED_FIELD", len |-> st.len, err |-> FALSE]
            ELSE IF c = COMMA THEN [state |-> "START_FIELD", len |-> 0, err |-> FALSE]
            ELSE [state |-> "IN_FIELD", len |-> st.len + 1, err |-> FALSE]
    IN CASE st.state = "START_RECORD" ->
              IF c = EOL THEN st
              ELSE IF c \in {LF, CR} THEN [st EXCEPT !.state = "EAT_CRNL"]
              ELSE startField
         [] st.state = "START_FIELD" -> startField
         [] st.state = "IN_FIELD" ->
              IF newline THEN [state |-> afterNewline, len |-> 0, err |-> FALSE]
              ELSE IF c = COMMA THEN [state |-> "START_FIELD", len |-> 0, err |-> FALSE]
              ELSE [st EXCEPT !.len = @ + 1]
         [] st.state = "IN_QUOTED_FIELD" ->
              IF c = EOL THEN st
              ELSE IF c = QUOTE THEN [st EXCEPT !.state = "QUOTE_IN_QUOTED_FIELD"]
              ELSE [st EXCEPT !.len = @ + 1]
         [] st.state = "QUOTE_IN_QUOTED_FIELD" ->
              IF c = QUOTE THEN [st EXCEPT !.state = "IN_QUOTED_FIELD", !.len = @ + 1]
              ELSE IF c = COMMA THEN [state |-> "START_FIELD", len |-> 0, err |-> FALSE]
              ELSE IF newline THEN [state |-> afterNewline, len |-> 0, err |-> FALSE]
              ELSE [st EXCEPT !.state = "IN_FIELD", !.len = @ + 1]
         [] st.state = "EAT_CRNL" ->
              IF c \in {LF, CR} THEN st
              ELSE IF c = EOL THEN [st EXCEPT !.state = "START_RECORD"]
              ELSE [st EXCEPT !.err = TRUE]

ParseReset == [state |-> "START_RECORD", len |-> 0, err |-> FALSE]

\* Every record csv.reader yields from the fed characters, counted: a record
\* ends when an end-of-line mark leaves the parser at START_RECORD, and the
\* end of the input ends one that is still open. ok is FALSE on csv.Error.
RECURSIVE Records(_, _, _)
Records(feed, st, n) ==
    IF feed = <<>>
    THEN [ok |-> TRUE, n |-> IF st.len # 0 \/ st.state = "IN_QUOTED_FIELD" THEN n + 1 ELSE n]
    ELSE LET nxt == ParseProcessChar(st, Head(feed))
         IN IF nxt.err THEN [ok |-> FALSE, n |-> n]
            ELSE IF Head(feed) = EOL /\ nxt.state = "START_RECORD"
                 THEN Records(Tail(feed), ParseReset, n + 1)
            ELSE Records(Tail(feed), nxt, n)

\* next(csv_reader, None) and sum(1 for _ in csv_reader): the records after
\* the first; and a variant that counts the first record too.
RowCountWithHeader(text) == Records(Feed(text), ParseReset, 0)

RowCount(text) ==
    LET all == Records(Feed(text), ParseReset, 0)
    IN [ok |-> all.ok, n |-> IF all.n > 0 THEN all.n - 1 ELSE 0]

\* ------------------------------------------------------------------ state

Requests == 1..MaxRequests

\* The file names, symbols and bodies the clients upload.
Names == {NameA, NameB, NameUpper}

Symbols == {"DEFAULT"}

HeaderAndRow == <<CHX, LF, CHX>>
NotUtf8 == <<BadByte>>
BareCr == <<CHX, CR, CHX>>

Contents == {HeaderAndRow, NotUtf8, BareCr}

\* The file names and bodies of the CSV specification.
CsvNames == {NameA, NameSample, NameTraversal, NameSubdir, NameTxt}

CsvSymbols == {"NIFTY"}

CsvContents == BodiesUpTo(MaxLen)

VARIABLES
    uploaded_files,  \* the registry: the module-level list of FileInfo
    disk,            \* the files on disk: resolved file -> its bytes, and
                     \* whether the write that produced them ran to its end
    now,             \* the clock datetime.utcnow() reads
    pc,              \* per request: "pending", "reading" (an upload suspended
                     \* at await file.read()) or "done"
    req,             \* per upload request: file.filename and symbol
    content,         \* per upload request: the bytes file.read() returned
    resp             \* per request: the HTTP response

vars == <<uploaded_files, disk, now, pc, req, content, resp>>

MB == 1048576

\* round(len / (1024 * 1024), 2), in hundredths of a megabyte (round-half-even).
RoundedSizeMb(len) ==
    LET q == (len * 100) \div MB
        rem == (len * 100) % MB
    IN IF 2 * rem > MB \/ (2 * rem = MB /\ q % 2 = 1) THEN q + 1 ELSE q

\* The record initialize_sample_data appends; size_mb 0.05 is 5 hundredths.
SampleFile ==
    [filename |-> NameSample, symbol |-> "NIFTY", uploaded_at |-> 0,
     row_count |-> 1000, size_mb |-> 5, status |-> "uploaded"]

initialize_sample_data(files) ==
    IF files = <<>> THEN Append(files, SampleFile) ELSE files

NoReq == [filename |-> <<>>, symbol |-> ""]
NoResp == [endpoint |-> "none"]

Init ==
    /\ uploaded_files = initialize_sample_data(<<>>)
    /\ disk = [f \in {} |-> <<>>]
    /\ now = 1
    /\ pc = [r \in Requests |-> "pending"]
    /\ req = [r \in Requests |-> NoReq]
    /\ content = [r \in Requests |-> <<>>]
    /\ resp = [r \in Requests |-> NoResp]

\* Requests are numbered in the order they arrive.
Arrives(r) == pc[r] = "pending" /\ \A q \in 1..(r - 1) : pc[q] # "pending"

Respond(r, body) == resp' = [resp EXCEPT ![r] = body]

\* ------------------------------------------------------------------ disk

\* The outcomes of open(file_path, "wb") and f.write(content) that the
\* operating system can produce: both succeed, open raises, or write raises
\* after some of the bytes have reached the file.
IoOutcomes(c) ==
    {[kind |-> "ok", written |-> Len(c)], [kind |-> "open raises", written |-> 0]}
    \cup {[kind |-> "write raises", written |-> k] : k \in 0..(Len(c) - 1)}

FileKey(f) == [from |-> f.from, up |-> f.up, dir |-> f.dir, base |-> f.base]

Put(d, key, entry) ==
    [k \in DOMAIN d \cup {key} |-> IF k = key THEN entry ELSE d[k]]

\* with open(file_path, "wb") as f: f.write(content). Opening truncates the
\* file; ok is FALSE when open or write raised OSError.
WriteFile(d, f, c, io) ==
    IF ~f.ok \/ io.kind = "open raises" THEN [ok |-> FALSE, disk |-> d]
    ELSE IF io.kind = "write raises"
         THEN [ok |-> FALSE,
               disk |-> Put(d, FileKey(f), [bytes |-> SubSeq(c, 1, io.written), complete |-> FALSE])]
    ELSE [ok |-> TRUE, disk |-> Put(d, FileKey(f), [bytes |-> c, complete |-> TRUE])]

\* ------------------------------------------------------------------ uploads

\* uploaded_files.append(file_info); and variants that overwrite the last
\* uploaded record, or insert at the head.
RegistryAppendOverLast(files, info) ==
    IF Len(files) > 1 THEN [files EXCEPT ![Len(files)] = info] ELSE Append(files, info)

RegistryPrepend(files, info) == <<info>> \o files

RegistryAppend(files, info) == Append(files, info)

\* POST /upload, up to the await: the suffix check, then the handler
\* suspends at await file.read().
upload_file(r, filename, symbol) ==
    /\ Arrives(r)
    /\ req' = [req EXCEPT ![r] = [filename |-> filename, symbol |-> symbol]]
    /\ IF ~endswith(filename, CsvSuffix)
       THEN /\ pc' = [pc EXCEPT ![r] = "done"]
            /\ Respond(r, [endpoint |-> "/upload", status |-> 400,
                            detail |-> "Only CSV files are allowed"])
       ELSE /\ pc' = [pc EXCEPT ![r] = "reading"]
            /\ UNCHANGED resp
    /\ UNCHANGED <<uploaded_files, disk, now, content>>

\* POST /api/files/upload/: awaits upload_file(file, symbol); validate is not used.
upload_file_api(r, filename, symbol, validate) ==
    /\ validate \in BOOLEAN
    /\ upload_file(r, filename, symbol)

\* POST /upload, from the await to the end: file.read() returns c, the body
\* is decoded and its rows counted, the file is written, the record appended.
\* Nothing in this part awaits, so it runs as one step of the event loop.
upload_file_resume(r, c, io) ==
    /\ pc[r] = "reading"
    /\ LET filename == req[r].filename
           symbol == req[r].symbol
           file_path == PathJoin(UPLOAD_DIR, filename)
           decoded == Decode(c)
           counted == RowCount(decoded.text)
           stored == WriteFile(disk, Resolve(file_path), c, io)
           file_info == [filename |-> filename, symbol |-> symbol, uploaded_at |-> now,
                         row_count |-> counted.n, size_mb |-> RoundedSizeMb(Len(c)),
                         status |-> "uploaded"]
           Fail(e) == Respond(r, [endpoint |-> "/upload", status |-> 500, detail |-> e])
       IN /\ content' = [content EXCEPT ![r] = c]
          /\ pc' = [pc EXCEPT ![r] = "done"]
          /\ IF ~decoded.ok
             THEN Fail("UnicodeDecodeError") /\ UNCHANGED <<uploaded_files, disk, now>>
             ELSE IF ~counted.ok
             THEN Fail("csv.Error") /\ UNCHANGED <<uploaded_files, disk, now>>
             ELSE IF ~stored.ok
             THEN /\ Fail("OSError")
                  /\ disk' = stored.disk
                  /\ UNCHANGED <<uploaded_files, now>>
             ELSE /\ disk' = stored.disk
                  /\ uploaded_files' = RegistryAppend(uploaded_files, file_info)
                  /\ now' = now + 1
                  /\ Respond(r, [endpoint |-> "/upload", status |-> 200,
                                 detail |-> "uploaded successfully",
                                 filename |-> filename, size_bytes |-> Len(c),
                                 row_count |-> counted.n, symbol |-> symbol])
    /\ UNCHANGED req

\* ------------------------------------------------------------------ other endpoints

\* A handler that never suspends: the request is answered in one step.
Answer(r, body) ==
    /\ pc' = [pc EXCEPT ![r] = "done"]
    /\ Respond(r, body)
    /\ UNCHANGED <<uploaded_files, disk, now, req, content>>

\* GET /
root(r) ==
    /\ Arrives(r)
    /\ Answer(r, [endpoint |-> "/", status |-> "healthy", version |-> "1.0.4",
               uploaded_files_count |-> Len(uploaded_files)])

\* file.dict() for file in uploaded_files; and a variant in reverse order.
ListingReversed(files) == [i \in 1..Len(files) |-> files[Len(files) + 1 - i]]

Listing(files) == [i \in 1..Len(files) |-> files[i]]

\* GET /api/files/
list_files(r) ==
    /\ Arrives(r)
    /\ Answer(r, [endpoint |-> "/api/files/", files |-> Listing(uploaded_files)])

\* POST /backtests: the suffix check, then the canned answer; params_json
\* is parsed and not used in the answer.
run_backtest(r, filename, params_json) ==
    /\ Arrives(r)
    /\ Answer(r, IF ~endswith(filename, CsvSuffix)
              THEN [endpoint |-> "/backtests", status |-> 400,
                    detail |-> "Only CSV files are allowed"]
              ELSE [endpoint |-> "/backtests", status |-> 200, id |-> "demo-123"])

\* GET /backtests/{backtest_id}
get_backtest_detail(r, backtest_id) ==
    /\ Arrives(r)
    /\ Answer(r, [endpoint |-> "/backtests/{id}", id |-> backtest_id,
               filename |-> "demo_data.csv", status |-> "completed"])

\* GET /api/historical-data/
get_historical_data(r) ==
    /\ Arrives(r)
    /\ Answer(r, [endpoint |-> "/api/historical-data/", id |-> "demo-123",
               filename |-> "demo_data.csv", status |-> "completed"])

\* GET /api/historical-data/{data_id}: awaits get_backtest_detail(data_id)
get_historical_data_detail(r, data_id) ==
    /\ data_id \in STRING
    /\ get_backtest_detail(r, data_id)

\* GET /debug/routes
debug_routes(r) ==
    /\ Arrives(r)
    /\ Answer(r, [endpoint |-> "/debug/routes", version |-> "1.0.1"])

\* GET /health
health_check(r) ==
    /\ Arrives(r)
    /\ Answer(r, [endpoint |-> "/health", status |-> "healthy", version |-> "1.0.3",
               uploaded_files_count |-> Len(uploaded_files)])

\* ------------------------------------------------------------------ specifications

BacktestIds == {"demo-123"}
BacktestNames == {NameA, NameTxt}
ParamsJson == {"", "{"}

\* The application serving MaxRequests requests, uploads interleaving at
\* their await.
Next ==
    \/ \E r \in Requests, f \in Names, s \in Symbols : upload_file(r, f, s)
    \/ \E r \in Requests, f \in Names, s \in Symbols : upload_file_api(r, f, s, TRUE)
    \/ \E r \in Requests, c \in Contents : \E io \in IoOutcomes(c) : upload_file_resume(r, c, io)
    \/ \E r \in Requests : root(r)
    \/ \E r \in Requests : list_files(r)
    \/ \E r \in Requests, f \in BacktestNames, p \in ParamsJson : run_backtest(r, f, p)
    \/ \E r \in Requests, id \in BacktestIds : get_backtest_detail(r, id)
    \/ \E r \in Requests : get_historical_data(r)
    \/ \E r \in Requests, id \in BacktestIds : get_historical_data_detail(r, id)
    \/ \E r \in Requests : debug_routes(r)
    \/ \E r \in Requests : health_check(r)

Spec == Init /\ [][Next]_vars

\* One upload request, over every body of at most MaxLen bytes.
NextCsv ==
    \/ \E f \in CsvNames, s \in CsvSymbols : upload_file(1, f, s)
    \/ \E f \in CsvNames, s \in CsvSymbols : upload_file_api(1, f, s, TRUE)
    \/ /\ pc[1] = "reading"
       /\ \E c \in CsvContents : \E io \in IoOutcomes(c) : upload_file_resume(1, c, io)

SpecCsv == Init /\ [][NextCsv]_vars

\* ------------------------------------------------------------------ properties

IsPrefix(a, b) == Len(a) <= Len(b) /\ \A i \in 1..Len(a) : a[i] = b[i]

\* A file name ends in ".csv", character by character.
HasCsvSuffix(n) ==
    /\ Len(n) >= 4
    /\ n[Len(n) - 3] = "." /\ n[Len(n) - 2] = "c" /\ n[Len(n) - 1] = "s" /\ n[Len(n)] = "v"

\* Request r takes its first step as an upload in this step.
UploadArrives(r) == pc[r] = "pending" /\ req'[r] # NoReq

\* Request r resumes from await file.read() and finishes in this step.
UploadFinishes(r) == pc[r] = "reading" /\ pc'[r] = "done"

Succeeded(r) == resp[r].endpoint = "/upload" /\ resp[r].status = 200

Successes == {r \in Requests : Succeeded(r)}

\* The file on disk that a file name is stored as.
StoredAs(filename) == FileKey(Resolve(PathJoin(UPLOAD_DIR, filename)))

\* C1: an upload whose file name does not end in ".csv" is answered 400
\* "Only CSV files are allowed" at once, and the step changes neither the
\* disk nor the registry.
C1_NonCsvRejected ==
    [][\A r \in Requests :
         (UploadArrives(r) /\ ~HasCsvSuffix(req'[r].filename)) =>
            /\ pc'[r] = "done"
            /\ resp'[r] = [endpoint |-> "/upload", status |-> 400,
                           detail |-> "Only CSV files are allowed"]
            /\ disk' = disk
            /\ uploaded_files' = uploaded_files]_vars

\* C1 witness: a.CSV was rejected in a run that also stored an upload.
C1_Witness ==
    \E r \in Requests :
        /\ pc[r] = "done" /\ req[r].filename = NameUpper
        /\ resp[r].endpoint = "/upload" /\ resp[r].status = 400
        /\ Len(uploaded_files) = 2 /\ DOMAIN disk # {}

\* C2: the registry never holds two records with the same file name.
C2_NoDuplicateFilenames ==
    \A i, j \in 1..Len(uploaded_files) :
        i # j => uploaded_files[i].filename # uploaded_files[j].filename

\* C3: every record of the registry has its file in the upload directory,
\* written to its end.
C3_EveryRecordHasFile ==
    \A i \in 1..Len(uploaded_files) :
        LET f == StoredAs(uploaded_files[i].filename)
        IN f \in DOMAIN disk /\ disk[f].complete

\* Well-formed CSV, built from its grammar rather than read by the parser: a
\* field is unquoted text or a quoted run of text, delimiters, line breaks
\* and doubled quotes; a record is fields joined by the delimiter; a document
\* is a one-line header and then data rows, each after a line break (LF or
\* CR LF), with an optional line break at the end. No record is blank.
RECURSIVE Star(_, _)
Star(units, n) ==
    IF n <= 0 THEN {<<>>}
    ELSE LET shorter == Star(units, n - 1)
         IN shorter \cup {y \in {x \o u : x \in shorter, u \in units} : Len(y) <= n}

CsvFields ==
    Star({<<CHX>>}, MaxLen)
    \cup {<<QUOTE>> \o x \o <<QUOTE>> :
            x \in Star({<<CHX>>, <<COMMA>>, <<LF>>, <<CR>>, <<QUOTE, QUOTE>>}, MaxLen - 2)}

UpTo(S, n) == {y \in S : Len(y) <= n}

\* The records of at most MaxLen bytes with the given number of delimiters.
RECURSIVE CsvRecordsOf(_)
CsvRecordsOf(commas) ==
    IF commas = 0 THEN CsvFields
    ELSE UNION {{r \o <<COMMA>> \o f : f \in UpTo(CsvFields, MaxLen - Len(r) - 1)} :
                  r \in UpTo(CsvRecordsOf(commas - 1), MaxLen - 1)}

CsvRows == UNION {CsvRecordsOf(k) : k \in 0..MaxLen} \ {<<>>}

CsvHeaders == {h \in CsvRows : \A i \in 1..Len(h) : h[i] \notin {LF, CR}}

LineBreaks == {<<LF>>, <<CR, LF>>}

\* The documents of at most MaxLen bytes with the given number of data rows
\* and no line break at the end.
RECURSIVE CsvBodies(_)
CsvBodies(rows) ==
    IF rows = 0 THEN CsvHeaders
    ELSE UNION {{b \o t \o row : t \in LineBreaks, row \in UpTo(CsvRows, MaxLen - Len(b) - 1)} :
                  b \in UpTo(CsvBodies(rows - 1), MaxLen - 2)}

\* The well-formed documents of at most MaxLen bytes, each with the number
\* of its data rows.
ValidDocs ==
    UNION {{[bytes |-> d, n |-> k] :
              d \in UpTo(CsvBodies(k) \cup {b \o t : b \in CsvBodies(k), t \in LineBreaks}, MaxLen)} :
           k \in 0..MaxLen}

\* C4: a successful upload of a header line and N data rows appends a record
\* with row_count = N and answers row_count = N.
C4_RowCountIsDataRows ==
    [][\A r \in Requests :
         (UploadFinishes(r) /\ resp'[r].status = 200) =>
            \A n \in 0..MaxLen :
                [bytes |-> content'[r], n |-> n] \in ValidDocs =>
                    /\ resp'[r].row_count = n
                    /\ Len(uploaded_files') = Len(uploaded_files) + 1
                    /\ uploaded_files'[Len(uploaded_files')].row_count = n
                    /\ uploaded_files'[Len(uploaded_files')].filename = req[r].filename]_vars

\* C4 witness: a header and two rows were uploaded and counted as two.
C4_Witness ==
    \E r \in Requests :
        /\ Succeeded(r)
        /\ content[r] = <<CHX, LF, CHX, LF, CHX>>
        /\ [bytes |-> content[r], n |-> 2] \in ValidDocs
        /\ resp[r].row_count = 2
        /\ uploaded_files[Len(uploaded_files)].row_count = 2

\* C5: an upload whose body is not valid UTF-8, or is refused by the CSV
\* parser, is answered 500 and the step changes neither the disk nor the
\* registry.
C5_DecodeFailureWritesNothing ==
    [][\A r \in Requests :
         (UploadFinishes(r) /\
          ((\E i \in 1..Len(content'[r]) : content'[r][i] = BadByte)
           \/ resp'[r].detail \in {"UnicodeDecodeError", "csv.Error"})) =>
            /\ resp'[r].status = 500
            /\ disk' = disk
            /\ uploaded_files' = uploaded_files]_vars

\* C5 witness: a listing showed a stored upload, and a later request for the
\* same name, with a body that is not UTF-8, was refused; the stored file is
\* still on disk in full.
C5_Witness ==
    \E l, r \in Requests :
        /\ l < r
        /\ resp[l].endpoint = "/api/files/" /\ Len(resp[l].files) = 2
        /\ resp[l].files[2].filename = req[r].filename
        /\ pc[r] = "done" /\ content[r] = NotUtf8
        /\ resp[r].endpoint = "/upload" /\ resp[r].status = 500
        /\ StoredAs(req[r].filename) \in DOMAIN disk
        /\ disk[StoredAs(req[r].filename)] = [bytes |-> HeaderAndRow, complete |-> TRUE]

\* C6: the successful uploads so far, when their file names are pairwise
\* distinct, have added exactly one record each: none is lost, whatever the
\* interleaving of the handlers at their await.
C6_NoLostUpdate ==
    (\A r, q \in Successes : r # q => req[r].filename # req[q].filename) =>
        /\ Len(uploaded_files) = 1 + Cardinality(Successes)
        /\ \A r \in Successes :
              Cardinality({i \in 2..Len(uploaded_files) :
                              /\ uploaded_files[i].filename = req[r].filename
                              /\ uploaded_files[i].symbol = req[r].symbol
                              /\ uploaded_files[i].row_count = resp[r].row_count}) = 1

\* C6 witness: requests 1 and 2 uploaded distinct names and both succeeded,
\* and the record of request 2, which arrived second, comes first: request
\* 2 ran to its end while request 1 was suspended at its await.
C6_Witness ==
    /\ MaxRequests >= 2
    /\ Succeeded(1) /\ Succeeded(2)
    /\ req[1].filename # req[2].filename
    /\ Len(uploaded_files) = 3
    /\ uploaded_files[2].filename = req[2].filename
    /\ uploaded_files[3].filename = req[1].filename

\* Unsafe file names: a path separator or a ".." segment.
IsUnsafeName(n) ==
    \/ \E i \in 1..Len(n) : n[i] = SEP
    \/ \E i \in 1..Len(Components(n)) : Components(n)[i] = DotDot

\* C7: an upload of an unsafe ".csv" name is rejected with a path-security
\* error, and no file is ever written outside the upload directory.
C7_TraversalRejected ==
    /\ \A r \in Requests :
          (pc[r] = "done" /\ resp[r].endpoint = "/upload"
           /\ HasCsvSuffix(req[r].filename) /\ IsUnsafeName(req[r].filename)) =>
              (resp[r].status = 400 /\ resp[r].detail = "PathSecurityError")
    /\ \A f \in DOMAIN disk :
          f.from = "." /\ f.up = 0 /\ f.dir = <<DATA_DIR, UploadsName>>

\* C8: the listing is the registry in insertion order. A listing returns
\* the records as they stand, a record is only ever added at the end, so an
\* earlier listing is a prefix of the registry from then on, and the records
\* are in the order their uploads completed.
C8_ListingInInsertionOrder ==
    [][/\ IsPrefix(uploaded_files, uploaded_files')
       /\ \A r \in Requests :
             (pc[r] = "pending" /\ resp'[r].endpoint = "/api/files/") =>
                resp'[r].files = uploaded_files
       /\ \A r \in Requests :
             resp[r].endpoint = "/api/files/" => IsPrefix(resp[r].files, uploaded_files')
       /\ \A i, j \in 1..Len(uploaded_files') :
             i < j => uploaded_files'[i].uploaded_at < uploaded_files'[j].uploaded_at]_vars

\* C8 witness: a.csv was uploaded, then b.csv, and a listing returned the
\* seeded record, a.csv and b.csv in that order.
C8_Witness ==
    \E r \in Requests :
        /\ resp[r].endpoint = "/api/files/"
        /\ Len(resp[r].files) = 3
        /\ resp[r].files[1] = SampleFile
        /\ resp[r].files[2].filename = NameA
        /\ resp[r].files[3].filename = NameB

\* C9: an upload that fails at the disk write creates no record and leaves
\* the files on disk as they were.
C9_WriteFailureLeavesNoTrace ==
    [][\A r \in Requests :
         (UploadFinishes(r) /\ resp'[r].detail = "OSError") =>
            /\ uploaded_files' = uploaded_files
            /\ disk' = disk]_vars

\* C10: the registry is append-only. A successful upload adds one record at
\* the end and every other step leaves the registry as it is; no record ever
\* changes or moves; the count / and /health report is one more than the
\* number of successful uploads.
C10_AppendOnly ==
    [][/\ \A i \in 1..Len(uploaded_files) :
             i <= Len(uploaded_files') /\ uploaded_files'[i] = uploaded_files[i]
       /\ IF \E r \in Requests : UploadFinishes(r) /\ resp'[r].status = 200
          THEN Len(uploaded_files') = Len(uploaded_files) + 1
          ELSE uploaded_files' = uploaded_files
       /\ \A r \in Requests :
             (pc[r] = "pending" /\ resp'[r].endpoint \in {"/", "/health"}) =>
                resp'[r].uploaded_files_count = 1 + Cardinality(Successes)]_vars

\* C10 witness: after two successful uploads /health reported three files.
C10_Witness ==
    \E r \in Requests :
        /\ resp[r].endpoint = "/health"
        /\ resp[r].uploaded_files_count = 3
        /\ Cardinality(Successes) = 2

====
